---- MODULE Spec2Model ----
(***************************************************************************)
(* Model of kindle_maker/ebooklib.py: the chapter tree, the heading index, *)
(* the cover state, staging (generate-all), packaging (epub / mobi) and    *)
(* the save / show entry points.                                           *)
(*                                                                         *)
(* Text is modelled as a tuple of tokens (one token per character or per   *)
(* run of harmless characters), a file-system path as a record             *)
(* [abs, parts] and a Python value holding a path as [t, p] with           *)
(* t = "str" or "Path", so that str/Path comparison is what Python does.   *)
(*                                                                         *)
(* heap holds the Chapter objects made so far (an object is its index),    *)
(* chapter_list the book's list of them.  last records the latest call:    *)
(* its arguments, what it raised, and what it did; prev records the call   *)
(* before it when both are save calls; calls counts the calls made.        *)
(***************************************************************************)
EXTENDS Integers, Sequences, FiniteSets, TLC

VARIABLES title, author, format, auto_download_img, cover_path,
          cover_content, heap, chapter_list, _headings, fs, last, prev,
          calls

vars == <<title, author, format, auto_download_img, cover_path,
          cover_content, heap, chapter_list, _headings, fs, last, prev,
          calls>>

(* ---------------------------- bounds ----------------------------------- *)
MaxCalls == 6
MaxHeap == 2
MaxList == 2
MaxTop == 2
MaxSubs == 2
MaxLevelArg == 3

(* ------------------------- program constants --------------------------- *)
max_level == 2

None == "None"
NoErr == "none"

Range(s) == {s[i] : i \in DOMAIN s}
BoundedSeq(S, n) == UNION {[1..k -> S] : k \in 0..n}

(* Python truthiness of an optional str / bytes argument, and of a list   *)
(* attribute that starts as None (None is modelled as the empty list)     *)
Truthy(x) == x # None /\ x # ""
TruthyList(x) == x # <<>>

(* ------------------------- format_file_name ---------------------------- *)
Illegal == {"/", "\\", "?", "%", "*", ":", "|", "\"", "'", "<", ">", ".",
            ",", ";", "=", " ", "\t", "\n", "+", "&", "#"}

format_file_name(path) == SelectSeq(path, LAMBDA c : c \notin Illegal)

(* ------------------------------ inputs --------------------------------- *)
Titles == {<<"a">>, <<"b", "/">>}
BookTitle == <<"T", " ", "1">>

RemoteUrl == <<"http", ":", "/", "/", "h", "/", "i", ".", "jpg">>
UnsetContent == [kind |-> "Optional[None]"]
Contents == {[kind |-> "str", body |-> "hi", imgs |-> <<>>],
             [kind |-> "str", body |-> "pic", imgs |-> <<RemoteUrl>>]}

(* ------------------------------ Chapter -------------------------------- *)
Chapter(t, lvl) ==
    [title |-> t, level |-> lvl, content |-> UnsetContent,
     sub_chapters |-> <<>>]

chapter_dest_file_path(c) == format_file_name(c.title) \o <<".", "html">>

is_top_chapter(c) == c.level = 1

(* ---------------------------- EbookUtil.headings ----------------------- *)
SubHeadingsFrom(subs, order) ==
    [j \in 1..Len(subs) |->
        [title |-> subs[j].title, play_order |-> order + j,
         file_name |-> chapter_dest_file_path(subs[j])]]

RECURSIVE HeadingsFrom(_, _, _)
HeadingsFrom(hp, ids, order) ==
    IF ids = <<>> THEN <<>>
    ELSE LET c == hp[Head(ids)]
             h == [title |-> c.title, play_order |-> order + 1,
                   file_name |-> chapter_dest_file_path(c),
                   sub_headings |->
                       SubHeadingsFrom(c.sub_chapters, order + 1)]
         IN <<h>> \o HeadingsFrom(hp, Tail(ids),
                                  order + 1 + Len(c.sub_chapters))

ComputeHeadings_resetPerParent(hp, ids) ==
    [i \in 1..Len(ids) |->
        [title |-> hp[ids[i]].title, play_order |-> i + 1,
         file_name |-> chapter_dest_file_path(hp[ids[i]]),
         sub_headings |-> SubHeadingsFrom(hp[ids[i]].sub_chapters, i + 1)]]

ComputeHeadings(hp, ids) == HeadingsFrom(hp, ids, 1)

(* the property: return the cache when it is truthy, else compute *)
headings(cache, hp, ids) ==
    IF TruthyList(cache) THEN cache ELSE ComputeHeadings(hp, ids)

(* ------------------------------ paths ---------------------------------- *)
RelPath(name) == [abs |-> FALSE, parts |-> <<name>>]
tmpdir == [abs |-> TRUE, parts |-> <<<<"tmp">>, <<"t0">>>>]
Join(dir, name) == [abs |-> dir.abs, parts |-> Append(dir.parts, name)]
Basename(p) == p.parts[Len(p.parts)]
Under(dir, p) ==
    /\ p.abs = dir.abs
    /\ Len(p.parts) > Len(dir.parts)
    /\ SubSeq(p.parts, 1, Len(dir.parts)) = dir.parts

PyStr(p) == [t |-> "str", p |-> p]
PyPath(p) == [t |-> "Path", p |-> p]

(* Ebook.dest_file_path / full_dest_file_path (pathlib.Path values) *)
dest_file_path(ttl, fmt) == RelPath(format_file_name(ttl) \o <<".", fmt>>)
full_dest_file_path(ttl, fmt) ==
    Join(tmpdir, format_file_name(ttl) \o <<".", fmt>>)

(* files the caller has on disk before the book is made *)
CoverA == RelPath(<<"a", ".", "jpg">>)
CoverB == RelPath(<<"b", ".", "jpg">>)
DefaultCoverName == <<"cover", ".", "jpg">>
DefaultCoverData == [kind |-> "image", of |-> <<"templates/cover.jpg">>]
InitialFs == (CoverA :> [kind |-> "image", of |-> <<"a.jpg">>]) @@
             (CoverB :> [kind |-> "image", of |-> <<"b.jpg">>])

Exists(f, p) == p \in DOMAIN f
WriteFile(f, p, data) == (p :> data) @@ f

(* shutil.copy(src, dst) with dst a file path: SameFileError when both    *)
(* name the same existing file, FileNotFoundError when src is missing     *)
ShutilCopy(f, src, dst) ==
    IF ~Exists(f, src) THEN [fs |-> f, err |-> "FileNotFoundError"]
    ELSE IF src = dst THEN [fs |-> f, err |-> "SameFileError"]
    ELSE [fs |-> WriteFile(f, dst, f[src]), err |-> NoErr]

(* shutil.copy(src, directory) *)
ShutilCopyInto(f, src, dir) == ShutilCopy(f, src, Join(dir, Basename(src)))

(* ---------------------------- download_image --------------------------- *)
HasScheme(url) ==
    /\ Len(url) >= 2
    /\ url[1] \in {"http", "https"}
    /\ url[2] = ":"

UrlLocal(url) ==
    LET u == format_file_name(url)
    IN IF "." \notin Range(u) THEN u \o <<".", "png">> ELSE u

ReplaceUrl(imgs, url, new) ==
    [i \in 1..Len(imgs) |-> IF imgs[i] = url THEN new ELSE imgs[i]]

(* one pass of the for-loop over img_url_list; st = [content, fs, err] *)
RECURSIVE DownloadLoop(_, _)
DownloadLoop(urls, st) ==
    IF urls = <<>> \/ st.err # NoErr THEN st
    ELSE LET url == Head(urls)
             url_local == UrlLocal(url)
         IN IF ~HasScheme(url)
            THEN [st EXCEPT !.err = "MissingSchema"]
            ELSE DownloadLoop(Tail(urls),
                   [content |-> [st.content EXCEPT !.imgs =
                        ReplaceUrl(st.content.imgs, url,
                                   <<".", "/">> \o url_local)],
                    fs |-> WriteFile(st.fs, Join(tmpdir, url_local),
                                     [kind |-> "image", of |-> url]),
                    err |-> NoErr])

download_image(content, f) ==
    IF content = UnsetContent
    THEN [content |-> content, fs |-> f, err |-> "TypeError"]
    ELSE DownloadLoop(content.imgs,
                      [content |-> content, fs |-> f, err |-> NoErr])

(* ------------------------------ Chapter.save --------------------------- *)
(* the write of Chapter.save, d being what download_image returned (or    *)
(* the untouched content); result [content, fs, err], content being the   *)
(* chapter's _content afterwards                                          *)
ChapterWrite(c, d) ==
    IF d.err # NoErr
    THEN [content |-> c.content, fs |-> d.fs, err |-> d.err]
    ELSE IF d.content = UnsetContent
    THEN [content |-> d.content,
          fs |-> WriteFile(d.fs, Join(tmpdir, chapter_dest_file_path(c)),
                           [kind |-> "empty"]),
          err |-> "TypeError"]
    ELSE [content |-> d.content,
          fs |-> WriteFile(d.fs, Join(tmpdir, chapter_dest_file_path(c)),
                           [kind |-> "html", text |-> d.content]),
          err |-> NoErr]

ChapterSave(c, f, auto) ==
    ChapterWrite(c, IF auto THEN download_image(c.content, f)
                    ELSE [content |-> c.content, fs |-> f, err |-> NoErr])

(* the state of the inner loop of _save_chapters after sc.save() gave r *)
SubSaved(st, j, r) ==
    [subs |-> [st.subs EXCEPT ![j].content = r.content],
     fs |-> r.fs, err |-> r.err]

(* the inner loop of _save_chapters; st = [subs, fs, err] *)
RECURSIVE SaveSubs(_, _, _)
SaveSubs(j, st, auto) ==
    IF j > Len(st.subs) \/ st.err # NoErr THEN st
    ELSE SaveSubs(j + 1,
                  SubSaved(st, j, ChapterSave(st.subs[j], st.fs, auto)),
                  auto)

SubsSaved(id, hp, s) ==
    [heap |-> [hp EXCEPT ![id].sub_chapters = s.subs],
     fs |-> s.fs, err |-> s.err]

(* one round of the outer loop: c.save() gave r, then the sub-chapters *)
ChapterAndSubs(id, st, r, auto) ==
    IF r.err # NoErr
    THEN [heap |-> [st.heap EXCEPT ![id].content = r.content],
          fs |-> r.fs, err |-> r.err]
    ELSE SubsSaved(id, [st.heap EXCEPT ![id].content = r.content],
                   SaveSubs(1, [subs |-> st.heap[id].sub_chapters,
                                fs |-> r.fs, err |-> NoErr], auto))

(* EbookUtil._save_chapters; st = [heap, fs, err] *)
RECURSIVE _save_chapters(_, _, _)
_save_chapters(ids, st, auto) ==
    IF ids = <<>> \/ st.err # NoErr THEN st
    ELSE _save_chapters(Tail(ids),
             ChapterAndSubs(Head(ids), st,
                            ChapterSave(st.heap[Head(ids)], st.fs, auto),
                            auto),
             auto)

(* ------------------------- document renderer --------------------------- *)
AuthorOrDefault(a) == IF Truthy(a) THEN a ELSE "jachinlin.github.io"

NcxName == <<"toc", ".", "ncx">>
TocHtmlName == <<"toc", ".", "html">>
OpfName(ttl) == format_file_name(ttl) \o <<".", "opf">>

(* _render_file: the written text is the template applied to the context *)
_render_file(f, template_name, context, to_filename) ==
    WriteFile(f, Join(tmpdir, to_filename),
              [kind |-> "rendered", template |-> template_name,
               context |-> context])

_render_toc_ncx(f, hs) ==
    _render_file(f, "toc.xml",
                 [headings |-> hs, title |-> title,
                  author |-> AuthorOrDefault(author)], NcxName)

_render_toc_html(f, hs) ==
    _render_file(f, "toc.html", [headings |-> hs], TocHtmlName)

_render_opf(f, hs) ==
    _render_file(f, "opf.xml",
                 [headings |-> hs, title |-> title,
                  author |-> AuthorOrDefault(author)], OpfName(title))

(* ------------------------------ cover ---------------------------------- *)
CoverFile(s) == IF s = "a.jpg" THEN CoverA ELSE CoverB

_save_cover(f, cp, cc) ==
    IF Truthy(cp) THEN ShutilCopyInto(f, CoverFile(cp), tmpdir)
    ELSE IF Truthy(cc) THEN [fs |-> f, err |-> "NotImplementedError"]
    ELSE [fs |-> WriteFile(f, Join(tmpdir, DefaultCoverName),
                           DefaultCoverData),
          err |-> NoErr]

SetCover_keepOther(cp, cc, arg_path, arg_content) ==
    IF Truthy(arg_path)
    THEN [cover_path |-> arg_path, cover_content |-> cc, err |-> NoErr]
    ELSE IF Truthy(arg_content)
    THEN [cover_path |-> cp, cover_content |-> arg_content, err |-> NoErr]
    ELSE [cover_path |-> cp, cover_content |-> cc, err |-> "ValueError"]

(* Ebook.set_cover on cover state (cp, cc) *)
SetCover(cp, cc, arg_path, arg_content) ==
    IF Truthy(arg_path)
    THEN [cover_path |-> arg_path, cover_content |-> None, err |-> NoErr]
    ELSE IF Truthy(arg_content)
    THEN [cover_path |-> None, cover_content |-> arg_content, err |-> NoErr]
    ELSE [cover_path |-> cp, cover_content |-> cc, err |-> "ValueError"]

(* --------------------------- generate-all ------------------------------ *)
(* result: [fs, heap, hc, err, rendered, covered]                          *)
GenChapters(hs, ch) ==
    [fs |-> ch.fs, heap |-> ch.heap, hc |-> hs, err |-> ch.err,
     rendered |-> TRUE, covered |-> TRUE]

GenCover(hp, ids, hs, cov) ==
    IF cov.err # NoErr
    THEN [fs |-> cov.fs, heap |-> hp, hc |-> hs, err |-> cov.err,
          rendered |-> TRUE, covered |-> FALSE]
    ELSE GenChapters(hs, _save_chapters(ids, [heap |-> hp, fs |-> cov.fs,
                                              err |-> NoErr],
                                        auto_download_img))

GenRender(f, hp, ids, hs) ==
    GenCover(hp, ids, hs,
             _save_cover(_render_opf(_render_toc_html(_render_toc_ncx(f, hs),
                                                      hs), hs),
                         cover_path, cover_content))

_generate_all_files(f, hp, hc, ids) ==
    GenRender(f, hp, ids, headings(hc, hp, ids))

(* ------------------------------ packaging ------------------------------ *)
NoPath == [abs |-> FALSE, parts |-> <<>>]

StagedFiles(f) == {p \in DOMAIN f : Under(tmpdir, p)}

(* ZipFile.write(filename) without arcname: the entry is named by the     *)
(* path as given, less its leading separator                              *)
Arcname(p) == [abs |-> FALSE, parts |-> p.parts]

ZipOf(f) ==
    [kind |-> "zip",
     entries |-> {[name |-> Arcname(p), data |-> f[p]] : p \in StagedFiles(f)}]

(* result of create(): generate-all's record plus                         *)
(* [staged, packaged, wrote, rc]                                          *)
Finish(g, f, staged, packaged, wrote, rc, err) ==
    [fs |-> f, heap |-> g.heap, hc |-> g.hc, err |-> err,
     rendered |-> g.rendered, covered |-> g.covered, staged |-> staged,
     packaged |-> packaged, wrote |-> wrote, rc |-> rc]

EpubOf(g) ==
    IF g.err # NoErr
    THEN Finish(g, g.fs, FALSE, FALSE, NoPath, 0, g.err)
    ELSE Finish(g, WriteFile(g.fs, dest_file_path(title, format),
                             ZipOf(g.fs)),
                TRUE, TRUE, dest_file_path(title, format), 0, NoErr)

_create_epub(f, hp, hc, ids) == EpubOf(_generate_all_files(f, hp, hc, ids))

MobiErr_raise(rc) == IF rc # 0 THEN "Exception" ELSE NoErr

(* what _create_mobi does with kindlegen's exit status *)
MobiErr(rc) == NoErr

(* kindlegen writes <opf stem>.mobi next to the opf when it gets that far *)
MobiOf(f) ==
    [kind |-> "mobi",
     source |-> [p \in StagedFiles(f) \ {full_dest_file_path(title, "mobi")}
                    |-> f[p]]]

MobiPath == Join(tmpdir, format_file_name(title) \o <<".", "mobi">>)

MobiRun(g, rc, produced) ==
    IF g.err # NoErr
    THEN Finish(g, g.fs, FALSE, FALSE, NoPath, 0, g.err)
    ELSE Finish(g,
                IF produced THEN WriteFile(g.fs, MobiPath, MobiOf(g.fs))
                ELSE g.fs,
                TRUE, MobiErr(rc) = NoErr,
                IF produced THEN MobiPath ELSE NoPath, rc, MobiErr(rc))

_create_mobi(f, hp, hc, ids, rc, produced) ==
    MobiRun(_generate_all_files(f, hp, hc, ids), rc, produced)

(* EbookUtil.create: dispatch on the format *)
create(f, hp, hc, ids, rc, produced) ==
    IF format = "epub" THEN _create_epub(f, hp, hc, ids)
    ELSE _create_mobi(f, hp, hc, ids, rc, produced)

(* Ebook._create *)
_create(f, hp, hc, ids, rc, produced) ==
    IF ids = <<>>
    THEN [fs |-> f, heap |-> hp, hc |-> hc, err |-> "ValueError",
          rendered |-> FALSE, covered |-> FALSE, staged |-> FALSE,
          packaged |-> FALSE, wrote |-> NoPath, rc |-> 0]
    ELSE create(f, hp, hc, ids, rc, produced)

(* ------------------------- Chapter(...) call --------------------------- *)
(* Chapter.__init__(self, title, ebook, level=1): a call binds its        *)
(* positional arguments to title, ebook, level in that order; a third     *)
(* positional together with level=... binds level twice                   *)
ChapterInitParams == 3

BindError(npositional, level_kw) ==
    \/ npositional > ChapterInitParams
    \/ npositional = ChapterInitParams /\ level_kw

(* ------------------------------ Init ----------------------------------- *)
NoPrev == [op |-> "none"]
NoneDest == [t |-> "None"]
Absent == [kind |-> "absent"]

Init ==
    /\ title = BookTitle
    /\ author = None
    /\ format \in {"epub", "mobi"}
    /\ auto_download_img \in BOOLEAN
    /\ cover_path = None
    /\ cover_content = None
    /\ heap = <<>>
    /\ chapter_list = <<>>
    /\ _headings = <<>>
    /\ fs = InitialFs
    /\ last = [op |-> "init", err |-> NoErr]
    /\ prev = NoPrev
    /\ calls = 0

(* --------------------------- chapter tree ------------------------------ *)
(* the number of calls made so far, capped at MaxCalls *)
Tick == calls < MaxCalls /\ calls' = calls + 1

AddChapterAccepts_any(c) == TRUE

(* the guard of Ebook.add_chapter *)
AddChapterAccepts(c) == is_top_chapter(c)

(* a caller constructs Chapter(title, ebook, level) directly *)
NewChapter(t, lvl) ==
    /\ Tick
    /\ Len(heap) < MaxHeap
    /\ heap' = Append(heap, Chapter(t, lvl))
    /\ last' = [op |-> "Chapter", err |-> NoErr, id |-> Len(heap) + 1]
    /\ prev' = NoPrev
    /\ UNCHANGED <<title, author, format, auto_download_img, cover_path,
                   cover_content, chapter_list, _headings, fs>>

add_chapter(id) ==
    /\ Tick
    /\ id \in 1..Len(heap)
    /\ AddChapterAccepts(heap[id]) => Len(chapter_list) < MaxList
    /\ IF ~AddChapterAccepts(heap[id])
       THEN /\ last' = [op |-> "add_chapter", err |-> "ValueError",
                        id |-> id, pre_list |-> chapter_list]
            /\ UNCHANGED chapter_list
       ELSE /\ chapter_list' = Append(chapter_list, id)
            /\ last' = [op |-> "add_chapter", err |-> NoErr, id |-> id,
                        pre_list |-> chapter_list]
    /\ prev' = NoPrev
    /\ UNCHANGED <<title, author, format, auto_download_img, cover_path,
                   cover_content, heap, _headings, fs>>

(* create_chapter: ct = Chapter(chapter_title, self); add_chapter(ct) *)
create_chapter(t) ==
    /\ Tick
    /\ Len(heap) < MaxHeap
    /\ Len(chapter_list) < MaxList
    /\ LET ct == Chapter(t, 1)
           id == Len(heap) + 1
       IN IF BindError(2, FALSE)
          THEN /\ last' = [op |-> "create_chapter", err |-> "TypeError"]
               /\ UNCHANGED <<heap, chapter_list>>
          ELSE /\ heap' = Append(heap, ct)
               /\ IF AddChapterAccepts(ct)
                  THEN /\ chapter_list' = Append(chapter_list, id)
                       /\ last' = [op |-> "create_chapter", err |-> NoErr,
                                   id |-> id]
                  ELSE /\ UNCHANGED chapter_list
                       /\ last' = [op |-> "create_chapter",
                                   err |-> "ValueError", id |-> id]
    /\ prev' = NoPrev
    /\ UNCHANGED <<title, author, format, auto_download_img, cover_path,
                   cover_content, _headings, fs>>

(* create_subchapter on the chapter object id: the level clamp, then      *)
(* Chapter(chapter_title, self._ebook, chapter_file_path, level=...)      *)
create_subchapter(id, t) ==
    /\ Tick
    /\ id \in 1..Len(heap)
    /\ LET c == heap[id]
           rec == [op |-> "create_subchapter", id |-> id,
                   target_level |-> c.level, pre_subs |-> c.sub_chapters]
       IN IF c.level >= max_level
          THEN /\ last' = rec @@ [err |-> "Exception"]
               /\ UNCHANGED heap
          ELSE IF BindError(3, TRUE)
          THEN /\ last' = rec @@ [err |-> "TypeError"]
               /\ UNCHANGED heap
          ELSE /\ Len(c.sub_chapters) < MaxSubs
               /\ heap' = [heap EXCEPT ![id].sub_chapters =
                              Append(@, [title |-> t, level |-> c.level + 1,
                                         content |-> UnsetContent,
                                         sub_chapters |-> <<>>])]
               /\ last' = rec @@ [err |-> NoErr]
    /\ prev' = NoPrev
    /\ UNCHANGED <<title, author, format, auto_download_img, cover_path,
                   cover_content, chapter_list, _headings, fs>>

set_content(id, content) ==
    /\ Tick
    /\ id \in 1..Len(heap)
    /\ heap' = [heap EXCEPT ![id].content = content]
    /\ last' = [op |-> "set_content", err |-> NoErr, id |-> id]
    /\ prev' = NoPrev
    /\ UNCHANGED <<title, author, format, auto_download_img, cover_path,
                   cover_content, chapter_list, _headings, fs>>

(* ------------------------------ set_cover ------------------------------ *)
set_cover(arg_path, arg_content) ==
    LET r == SetCover(cover_path, cover_content, arg_path, arg_content)
    IN /\ Tick
       /\ cover_path' = r.cover_path
       /\ cover_content' = r.cover_content
       /\ last' = [op |-> "set_cover", err |-> r.err,
                   arg_path |-> arg_path, arg_content |-> arg_content,
                   pre_path |-> cover_path, pre_content |-> cover_content]
       /\ prev' = NoPrev
       /\ UNCHANGED <<title, author, format, auto_download_img, heap,
                      chapter_list, _headings, fs>>

(* ------------------------------ save / show ---------------------------- *)
OutPath == [abs |-> FALSE, parts |-> <<<<"out">>, <<"book">>>>]

(* destinations a caller passes: omitted, the packaged artifact's own    *)
(* path as a str or as a pathlib.Path, or some other file                 *)
ArtifactPath == IF format = "mobi" THEN full_dest_file_path(title, format)
                ELSE dest_file_path(title, format)
Dests == {NoneDest, PyStr(ArtifactPath), PyPath(ArtifactPath), PyStr(OutPath)}

(* kindlegen: exit status and whether it wrote the .mobi; status 0 means  *)
(* it did, a non-zero status (warnings / errors) may go either way        *)
Converter == {[rc |-> 0, produced |-> TRUE], [rc |-> 1, produced |-> TRUE],
              [rc |-> 2, produced |-> FALSE]}
Runs == IF format = "mobi" THEN Converter
        ELSE {[rc |-> 0, produced |-> FALSE]}

DataAt(f, p) == IF Exists(f, p) THEN f[p] ELSE Absent

(* the destination save works with, and where it expects the artifact *)
FilePath(dest) ==
    IF dest = NoneDest THEN PyPath(dest_file_path(title, format)) ELSE dest
SrcFilePath ==
    IF format = "mobi" THEN PyPath(full_dest_file_path(title, format))
    ELSE PyPath(dest_file_path(title, format))

(* save after self._create() gave r: the comparison and the copy; cp is   *)
(* what shutil.copy does if it is reached                                 *)
SaveCopy(dest, r, copying, cp) ==
    /\ Tick
    /\ fs' = IF copying THEN cp.fs ELSE r.fs
    /\ heap' = r.heap
    /\ _headings' = r.hc
    /\ last' = [op |-> "save",
                err |-> IF copying THEN cp.err ELSE r.err,
                create_err |-> r.err, pre_heap |-> heap,
                dest |-> dest, file_path |-> FilePath(dest).p,
                src |-> SrcFilePath.p, copy_attempted |-> copying,
                rendered |-> r.rendered, covered |-> r.covered,
                staged |-> r.staged, packaged |-> r.packaged,
                wrote |-> r.wrote, rc |-> r.rc,
                had_artifact |-> Exists(r.fs, SrcFilePath.p)]
    /\ prev' = IF last.op = "save"
               THEN [op |-> "save", err |-> last.err, dest |-> last.dest,
                     rc |-> last.rc, pre_heap |-> last.pre_heap,
                     output |-> IF last.err = NoErr
                                THEN DataAt(fs, last.file_path) ELSE Absent]
               ELSE NoPrev
    /\ UNCHANGED <<title, author, format, auto_download_img, cover_path,
                   cover_content, chapter_list>>

SaveAfter(dest, r) ==
    SaveCopy(dest, r, r.err = NoErr /\ FilePath(dest) # SrcFilePath,
             ShutilCopy(r.fs, SrcFilePath.p, FilePath(dest).p))

save(dest, run) ==
    SaveAfter(dest, _create(fs, heap, _headings, chapter_list, run.rc,
                            run.produced))

(* show after self._create() gave r: the launcher is handed the path *)
ShowAfter(r) ==
    /\ Tick
    /\ fs' = r.fs
    /\ heap' = r.heap
    /\ _headings' = r.hc
    /\ last' = [op |-> "show", err |-> r.err, create_err |-> r.err,
                pre_heap |-> heap,
                rendered |-> r.rendered, covered |-> r.covered,
                staged |-> r.staged, packaged |-> r.packaged,
                wrote |-> r.wrote, rc |-> r.rc,
                opened |-> IF r.err = NoErr
                           THEN full_dest_file_path(title, format)
                           ELSE NoPath,
                opened_exists |->
                    /\ r.err = NoErr
                    /\ Exists(r.fs, full_dest_file_path(title, format))]
    /\ prev' = NoPrev
    /\ UNCHANGED <<title, author, format, auto_download_img, cover_path,
                   cover_content, chapter_list>>

show(run) ==
    ShowAfter(_create(fs, heap, _headings, chapter_list, run.rc,
                      run.produced))

(* ------------------------------ Next / Spec ---------------------------- *)
CoverPathArgs == {None, "", "a.jpg", "b.jpg"}
CoverContentArgs == {None, "bytes"}

(* building a book: chapters are created and filled, the book is saved   *)
(* and shown                                                              *)
Next ==
    \/ \E t \in Titles : create_chapter(t)
    \/ \E id \in 1..MaxHeap, c \in Contents : set_content(id, c)
    \/ \E d \in Dests, run \in Runs : save(d, run)
    \/ \E run \in Runs : show(run)

Spec == Init /\ [][Next]_vars

(* the chapter tree: every way a caller can make and attach chapters       *)
NextTree ==
    \/ \E t \in Titles, lvl \in 1..MaxLevelArg : NewChapter(t, lvl)
    \/ \E t \in Titles : create_chapter(t)
    \/ \E id \in 1..MaxHeap : add_chapter(id)
    \/ \E id \in 1..MaxHeap, t \in Titles : create_subchapter(id, t)

SpecTree == Init /\ [][NextTree]_vars

(* the cover: set_cover calls interleaved with builds of a small book     *)
NextCover ==
    \/ \E p \in CoverPathArgs, c \in CoverContentArgs : set_cover(p, c)
    \/ create_chapter(<<"a">>)
    \/ \E c \in Contents : set_content(1, c)
    \/ \E run \in Runs : save(NoneDest, run)
    \/ \E run \in Runs : show(run)

SpecCover == Init /\ [][NextCover]_vars

(* -------- the heading index as a function of an arbitrary tree --------- *)
Leaves == {[title |-> t, level |-> 2, content |-> UnsetContent,
            sub_chapters |-> <<>>] : t \in Titles}
TopChapters == {[title |-> t, level |-> 1, content |-> UnsetContent,
                 sub_chapters |-> s] :
                t \in Titles, s \in BoundedSeq(Leaves, MaxSubs)}

InitHeadings ==
    /\ title = BookTitle
    /\ author = None
    /\ format = "epub"
    /\ auto_download_img = FALSE
    /\ cover_path = None
    /\ cover_content = None
    /\ heap \in BoundedSeq(TopChapters, MaxTop)
    /\ chapter_list = [i \in 1..Len(heap) |-> i]
    /\ _headings = <<>>
    /\ fs = InitialFs
    /\ last = [op |-> "init", err |-> NoErr]
    /\ prev = NoPrev
    /\ calls = 0

(* one read of the EbookUtil.headings property *)
AccessHeadings ==
    /\ _headings' = headings(_headings, heap, chapter_list)
    /\ last' = [op |-> "headings", err |-> NoErr]
    /\ UNCHANGED <<title, author, format, auto_download_img, cover_path,
                   cover_content, heap, chapter_list, fs, prev, calls>>

NextHeadings == AccessHeadings

SpecHeadings == InitHeadings /\ [][NextHeadings]_vars

(* ======================= properties of the code ======================== *)

(* C1: for every chapter tree the heading index numbers the nodes 2, 3,   *)
(* 4, ... in pre-order (each top-level chapter in list order, followed by *)
(* its sub-chapters in list order), continuing across parents.            *)
C1_PlayOrderPreorder ==
    last.op = "headings" =>
        LET RECURSIVE Nodes(_)
            Nodes(ids) ==
                IF ids = <<>> THEN <<>>
                ELSE <<heap[Head(ids)]>> \o heap[Head(ids)].sub_chapters
                     \o Nodes(Tail(ids))
            RECURSIVE Flat(_)
            Flat(hs) ==
                IF hs = <<>> THEN <<>>
                ELSE <<Head(hs)>> \o Head(hs).sub_headings \o Flat(Tail(hs))
            nodes == Nodes(chapter_list)
            flat == Flat(_headings)
        IN /\ Len(_headings) = Len(chapter_list)
           /\ \A i \in DOMAIN _headings :
                 Len(_headings[i].sub_headings)
                     = Len(heap[chapter_list[i]].sub_chapters)
           /\ Len(flat) = Len(nodes)
           /\ \A k \in DOMAIN flat :
                 /\ flat[k].play_order = k + 1
                 /\ flat[k].title = nodes[k].title
                 /\ flat[k].file_name
                        = format_file_name(nodes[k].title) \o <<".", "html">>

C1_Witness ==
    /\ last.op = "headings"
    /\ Len(chapter_list) >= 2
    /\ Len(heap[chapter_list[1]].sub_chapters) >= 1
    /\ Len(_headings) >= 2
    /\ _headings[2].play_order >= 4

(* C2: create_subchapter on a level-1 chapter succeeds and appends a new  *)
(* level-2 chapter at the end of that chapter's child list.               *)
C2_SubchapterOnTopSucceeds ==
    (last.op = "create_subchapter" /\ last.target_level = 1) =>
        /\ last.err = NoErr
        /\ Len(heap[last.id].sub_chapters) = Len(last.pre_subs) + 1
        /\ SubSeq(heap[last.id].sub_chapters, 1, Len(last.pre_subs))
               = last.pre_subs
        /\ heap[last.id].sub_chapters[Len(last.pre_subs) + 1].level = 2

(* C3: every chapter of the book's top-level list has level 1 and no      *)
(* chapter of the tree has a level above 2; add_chapter of a chapter      *)
(* whose level is not 1 fails and leaves the list unchanged, and          *)
(* create_subchapter on a level-2 chapter fails and leaves its child list *)
(* unchanged.                                                             *)
C3_LevelInvariant ==
    /\ \A i \in DOMAIN chapter_list :
          /\ heap[chapter_list[i]].level = 1
          /\ \A j \in DOMAIN heap[chapter_list[i]].sub_chapters :
                heap[chapter_list[i]].sub_chapters[j].level <= 2
    /\ (last.op = "add_chapter" /\ heap[last.id].level # 1) =>
          /\ last.err # NoErr
          /\ chapter_list = last.pre_list
    /\ (last.op = "create_subchapter" /\ last.target_level = 2) =>
          /\ last.err # NoErr
          /\ heap[last.id].sub_chapters = last.pre_subs

C3_Witness ==
    /\ last.op = "add_chapter"
    /\ heap[last.id].level = 2
    /\ last.err = "ValueError"
    /\ Len(chapter_list) >= 1

(* C4: at most one of cover path and cover content is set, and it is the  *)
(* one the latest successful set_cover supplied; a set_cover supplying    *)
(* neither fails and changes nothing; a build made while neither is set   *)
(* stages the default bundled cover.                                      *)
C4_CoverLastWriteWins ==
    /\ ~(Truthy(cover_path) /\ Truthy(cover_content))
    /\ last.op = "set_cover" =>
          IF Truthy(last.arg_path) \/ Truthy(last.arg_content)
          THEN /\ last.err = NoErr
               /\ Truthy(cover_path) \/ Truthy(cover_content)
               /\ Truthy(cover_path) => cover_path = last.arg_path
               /\ Truthy(cover_content) => cover_content = last.arg_content
          ELSE /\ last.err # NoErr
               /\ cover_path = last.pre_path
               /\ cover_content = last.pre_content
    /\ (/\ last.op \in {"save", "show"}
        /\ last.rendered
        /\ ~Truthy(cover_path)
        /\ ~Truthy(cover_content)) =>
          /\ last.covered
          /\ DataAt(fs, Join(tmpdir, DefaultCoverName)) = DefaultCoverData

C4_Witness ==
    /\ last.op = "set_cover"
    /\ last.err = NoErr
    /\ Truthy(last.pre_path)
    /\ ~Truthy(cover_path)
    /\ Truthy(cover_content)

(* C5: once packaging is done, save copies the artifact to the            *)
(* destination when the two paths differ, and when they coincide          *)
(* (destination omitted or given as that same path) it copies nothing and *)
(* returns without error.                                                 *)
C5_SaveCopiesOrSkips ==
    (last.op = "save" /\ last.create_err = NoErr) =>
        IF last.file_path = last.src
        THEN ~last.copy_attempted /\ last.err = NoErr
        ELSE /\ last.copy_attempted
             /\ last.had_artifact =>
                   /\ last.err = NoErr
                   /\ DataAt(fs, last.file_path) = DataAt(fs, last.src)

(* C6: the path show() hands to the viewer is the path at which the       *)
(* packaging step of that call wrote the artifact, and the file exists.   *)
C6_ShowOpensArtifact ==
    (last.op = "show" /\ last.err = NoErr /\ last.wrote # NoPath) =>
        /\ last.opened = last.wrote
        /\ last.opened_exists

(* C7: for epub the archive holds, for every staged file, an entry named  *)
(* by the file's path relative to the staging directory whose content is  *)
(* the staged file.                                                       *)
C7_EpubEntriesAtRoot ==
    (last.op \in {"save", "show"} /\ format = "epub" /\ last.packaged) =>
        \A p \in StagedFiles(fs) :
            [name |-> [abs |-> FALSE,
                       parts |-> SubSeq(p.parts, Len(tmpdir.parts) + 1,
                                        Len(p.parts))],
             data |-> fs[p]] \in fs[last.wrote].entries

(* C8 as stated: with format mobi a non-zero converter status raises      *)
(* nothing, neither in the conversion step nor in the save call (here for *)
(* a destination other than the artifact's own path).                     *)
C8_SaveNeverRaises ==
    (/\ last.op = "save"
     /\ format = "mobi"
     /\ last.staged
     /\ last.rc # 0
     /\ last.file_path # last.src) =>
        /\ last.create_err = NoErr
        /\ last.err = NoErr

(* C8 amended: with format mobi a non-zero converter status is swallowed  *)
(* by the conversion step; save then returns without raising exactly when *)
(* its copy step is skipped, or an artifact is present at the staging     *)
(* path and the destination is another file; with no artifact there the   *)
(* copy raises a missing-file error.                                      *)
C8_StatusSwallowedCopyMayRaise ==
    (last.op = "save" /\ format = "mobi" /\ last.staged /\ last.rc # 0) =>
        /\ last.create_err = NoErr
        /\ last.packaged
        /\ last.err = NoErr <=>
              \/ ~last.copy_attempted
              \/ last.had_artifact /\ last.file_path # last.src
        /\ (last.copy_attempted /\ ~last.had_artifact) =>
              last.err = "FileNotFoundError"

C8_Witness ==
    /\ last.op = "save"
    /\ format = "mobi"
    /\ last.staged
    /\ last.rc # 0
    /\ last.copy_attempted
    /\ ~last.had_artifact
    /\ last.err = "FileNotFoundError"

(* C9: of two consecutive save calls to the same destination, the first  *)
(* having completed (and the converter exiting 0 both times), the second  *)
(* starts from the chapters as they were before the first, completes, and *)
(* leaves the same output.                                                *)
C9_SaveTwiceSameOutput ==
    (/\ last.op = "save"
     /\ prev.op = "save"
     /\ prev.err = NoErr
     /\ prev.dest = last.dest
     /\ prev.rc = 0
     /\ last.rc = 0) =>
        /\ last.pre_heap = prev.pre_heap
        /\ last.err = NoErr
        /\ DataAt(fs, last.file_path) = prev.output

(* C10: the heading index rendered by a build into the navigation map,    *)
(* the HTML table of contents and the manifest is the one of the chapter  *)
(* tree as it stands at that build.                                       *)
C10_RenderedHeadingsCurrent ==
    (last.op \in {"save", "show"} /\ last.staged) =>
        \A n \in {NcxName, TocHtmlName, OpfName(title)} :
            fs[Join(tmpdir, n)].context.headings
                = HeadingsFrom(heap, chapter_list, 1)

====
